---------------------------- MODULE Spec2Model ----------------------------
(***************************************************************************)
(* Model of src/renditerechner.py: the two valuation projectors            *)
(* project_kgv_scenario and project_dcf_scenario, and the scenario loop    *)
(* of the script (section 4, BERECHNUNG JE SZENARIO) that calls one of     *)
(* them for each of the scenarios Best, Base and Worst.                    *)
(*                                                                         *)
(* Numbers.  The program computes with Python floats.  The model keeps     *)
(* every number as an exact rational <<n, d>> in lowest terms with d > 0,  *)
(* so it follows the arithmetic of the formulas and not the rounding of    *)
(* IEEE doubles.  Division follows Python: a zero divisor raises           *)
(* ZeroDivisionError, and x ** 0 is 1 for every x, 0 included.             *)
(*                                                                         *)
(* Two specifications share the projector actions:                        *)
(*   Spec    the script: the scenario loop over Best, Base, Worst with one *)
(*           method and one horizon, the horizon taken from the slider;    *)
(*   SpecFn  the two functions applied one after the other to the same     *)
(*           arguments, the arguments drawn from bounded sets that hold    *)
(*           the edge cases (horizon 0, no shares, a discount of -100 %).  *)
(***************************************************************************)
EXTENDS Integers, Sequences, FiniteSets

(***************************************************************************)
(* Bounds of the model.                                                    *)
(***************************************************************************)
\* Largest horizon (years) explored.
MaxYears == 3

\* Smallest value of the slider "Zeithorizont (Jahre)".
SliderMin == 1

(***************************************************************************)
(* Exact rational arithmetic standing for the float arithmetic.            *)
(***************************************************************************)
Abs(n) == IF n < 0 THEN -n ELSE n

RECURSIVE GCD(_, _)
GCD(a, b) == IF b = 0 THEN a ELSE GCD(b, a % b)

\* The rational n/d (d # 0) in lowest terms with a positive denominator.
Norm(n, d) ==
    LET k == GCD(Abs(n), Abs(d))
        s == IF d < 0 THEN -1 ELSE 1
    IN  <<(s * n) \div k, (s * d) \div k>>

RInt(n) == <<n, 1>>
R0 == RInt(0)
R1 == RInt(1)

RAdd(a, b) == Norm(a[1] * b[2] + b[1] * a[2], a[2] * b[2])
RSub(a, b) == Norm(a[1] * b[2] - b[1] * a[2], a[2] * b[2])
RMul(a, b) == Norm(a[1] * b[1], a[2] * b[2])

\* a / b for b # 0; the callers test IsZero(b) first and raise.
RDiv(a, b) == Norm(a[1] * b[2], a[2] * b[1])

IsZero(a) == a[1] = 0
RGt0(a) == a[1] > 0

\* r ** n for an integer n >= 0 (0 ** 0 = 1).
RECURSIVE RPow(_, _)
RPow(r, n) == IF n = 0 THEN R1 ELSE RMul(r, RPow(r, n - 1))

\* p / 100.0
RPct(p) == Norm(p, 100)

\* A local that has not been assigned (no rational has denominator 0).
Unbound == <<0, 0>>

(***************************************************************************)
(* Input spaces.                                                           *)
(***************************************************************************)
Scenarios == <<"Best", "Base", "Worst">>
ScenarioNames == {Scenarios[i] : i \in 1..Len(Scenarios)}

KGV == "KGV-Ansatz"
DCF == "DCF-Ansatz"
Methods == <<KGV, DCF>>

\* Assumption sets of one scenario as the number inputs deliver them
\* (no input has a minimum or a maximum).
ScriptAssumptions ==
    [revenue_growth   : {0, 100},
     net_margin       : {10},
     dilution         : {0, -100},
     discount_rate    : {0, 100, -100},
     margin_of_safety : {15},
     future_pe        : {15},
     fcf_margin       : {10},
     terminal_growth  : {0}]

\* Arguments of a direct call of a projector.
FnArguments ==
    [start_revenue         : {100},
     start_shares          : {0, 10, -10},
     start_net_margin      : {10, 50},
     fcf_margin            : {10},
     annual_revenue_growth : {0, 100},
     annual_dilution       : {0, -100, -200},
     future_pe             : {15},
     discount_rate         : {0, 100, -50, -100},
     terminal_growth       : {0, 100, -50},
     margin_of_safety      : {0, 15, 50},
     years                 : 0..MaxYears]

NoArgs ==
    [start_revenue |-> 0, start_shares |-> 0, start_net_margin |-> 0,
     fcf_margin |-> 0, annual_revenue_growth |-> 0, annual_dilution |-> 0,
     future_pe |-> 0, discount_rate |-> 0, terminal_growth |-> 0,
     margin_of_safety |-> 0, years |-> 0]

NoExc == [type |-> "none", line |-> 0]
ZeroDivisionError(l) == [type |-> "ZeroDivisionError", line |-> l]
IndexError(l) == [type |-> "IndexError", line |-> l]

(***************************************************************************)
(* State.                                                                  *)
(***************************************************************************)
VARIABLES
    \* the script's inputs and the state of its scenario loop
    revenue_ttm, shares_outstanding, valuation_method, years, scenario_data,
    scenario, results, dfs,
    \* the direct application of the two functions (SpecFn)
    call_no, outcome,
    \* the running call: function, arguments, position, locals, exception
    fn, args, pc, year, revenue, shares, records, npv, tv, tv_pv,
    total_value, future_price, fair_price_today, fair_price_mos, exc

script_vars ==
    <<revenue_ttm, shares_outstanding, valuation_method, years,
      scenario_data, scenario, results, dfs>>
direct_vars == <<call_no, outcome>>
dcf_locals == <<npv, tv, tv_pv, total_value>>
frame_vars ==
    <<fn, args, pc, year, revenue, shares, records, npv, tv, tv_pv,
      total_value, future_price, fair_price_today, fair_price_mos, exc>>
vars == <<script_vars, direct_vars, frame_vars>>


(***************************************************************************)
(* The expressions of the two projectors.                                  *)
(***************************************************************************)
\* g = 1 + annual_revenue_growth / 100.0
\* (ForgottenOnePlusGrowth: the slip of leaving out "1 +".)
ForgottenOnePlusGrowth(annual_revenue_growth) == RPct(annual_revenue_growth)
GrowthFactor(annual_revenue_growth) == RAdd(R1, RPct(annual_revenue_growth))

\* d = 1 + annual_dilution / 100.0
DilutionFactor(annual_dilution) == RAdd(R1, RPct(annual_dilution))

\* r ** n with r = 1 + discount_rate / 100.0
\* (ForgottenOnePlusDiscount: the slip of leaving out "1 +".)
ForgottenOnePlusDiscount(discount_rate, n) == RPow(RPct(discount_rate), n)
DiscountFactor(discount_rate, n) == RPow(RAdd(R1, RPct(discount_rate)), n)

\* net_margin_decimal = start_net_margin / 100.0
\* (MarginAsFactor: the slip of leaving out "/ 100.0".)
MarginAsFactor(start_net_margin) == RInt(start_net_margin)
NetMarginDecimal(start_net_margin) == RPct(start_net_margin)

\* fcf_margin_decimal = fcf_margin / 100.0
FcfMarginDecimal(fcf_margin) == RPct(fcf_margin)

\* eps = net_income / shares if shares > 0 else 0.0
\* (EpsGuardNonZero: the slip of guarding with shares != 0.)
EpsGuardNonZero(net_income, sh) ==
    IF ~IsZero(sh) THEN RDiv(net_income, sh) ELSE R0
Eps(net_income, sh) == IF RGt0(sh) THEN RDiv(net_income, sh) ELSE R0

\* One dict appended to records.
YearRecord(y, rev, net_income, sh, eps, fcf) ==
    [Jahr |-> y, Umsatz |-> rev, NetIncome |-> net_income, Shares |-> sh,
     EPS |-> eps, FCF |-> fcf]

\* records = []
\* (StaleRecords: the slip of keeping the list of the call before.)
StaleRecords == records
NewRecords == << >>

\* for year in range(0, years+1)
\* (KgvRangeWithoutLast: the slip of range(0, years).)
KgvFirstYear == 0
KgvRangeWithoutLast(y, n) == y < n
KgvLoopContinues(y, n) == y <= n

\* for year in range(1, years+1)
\* (DcfRangeFromZero: the slip of range(0, years+1).)
DcfRangeFromZero == 1 - 1
DcfFirstYear == 1
DcfLoopContinues(y, n) == y <= n

\* future_price of the KGV projector: market cap / shares, or 0.0.
FuturePrice(final_net_income, future_pe, final_shares) ==
    IF RGt0(final_shares)
    THEN RDiv(RMul(final_net_income, RInt(future_pe)), final_shares)
    ELSE R0

\* mos_factor = 1 - margin_of_safety / 100.0
\* (MosFactorAdded: the slip of a wrong sign.)
MosFactorAdded(margin_of_safety) == RAdd(R1, RPct(margin_of_safety))
MosFactor(margin_of_safety) == RSub(R1, RPct(margin_of_safety))

\* if (discount_rate > terminal_growth)
\* (TerminalBranchNonStrict: the slip of >= for >.)
TerminalBranchNonStrict(discount_rate, terminal_growth) ==
    discount_rate >= terminal_growth
TerminalBranch(discount_rate, terminal_growth) ==
    discount_rate > terminal_growth

\* (discount_rate/100.0) - (terminal_growth/100.0)
GordonDenominator(discount_rate, terminal_growth) ==
    RSub(RPct(discount_rate), RPct(terminal_growth))

\* records[-1]
Last(s) == s[Len(s)]

\* pd.DataFrame(records): one row per record under the records' keys; no
\* columns at all when there is no record.
Columns == <<"Jahr", "Umsatz", "NetIncome", "Shares", "EPS", "FCF">>
DataFrame(recs) ==
    [columns |-> IF recs = << >> THEN << >> ELSE Columns, rows |-> recs]

(***************************************************************************)
(* project_kgv_scenario                                                    *)
(***************************************************************************)
\* Lines 42-52: the factors and the start values.
KgvEnter ==
    /\ pc = "entry"
    /\ fn = "project_kgv_scenario"
    /\ revenue' = RInt(args.start_revenue)
    /\ shares' = RInt(args.start_shares)
    /\ records' = NewRecords
    /\ year' = KgvFirstYear
    /\ pc' = "loop"
    /\ UNCHANGED <<script_vars, direct_vars, fn, args, dcf_locals,
                   future_price, fair_price_today, fair_price_mos, exc>>

\* Lines 54-71: one pass of the year loop: record, then advance.
KgvYear ==
    /\ pc = "loop"
    /\ fn = "project_kgv_scenario"
    /\ KgvLoopContinues(year, args.years)
    /\ LET net_income == RMul(revenue, NetMarginDecimal(args.start_net_margin))
           eps == Eps(net_income, shares)
       IN  records' = Append(records,
                 YearRecord(year, revenue, net_income, shares, eps, R0))
    /\ revenue' = RMul(revenue, GrowthFactor(args.annual_revenue_growth))
    /\ shares' = RMul(shares, DilutionFactor(args.annual_dilution))
    /\ year' = year + 1
    /\ UNCHANGED <<script_vars, direct_vars, fn, args, pc, dcf_locals,
                   future_price, fair_price_today, fair_price_mos, exc>>

\* Lines 73-90: future price, discounting, margin of safety, return.
KgvFinal ==
    /\ pc = "loop"
    /\ fn = "project_kgv_scenario"
    /\ ~KgvLoopContinues(year, args.years)
    /\ IF records = << >>
       THEN /\ exc' = IndexError(74)
            /\ pc' = "raised"
            /\ UNCHANGED <<future_price, fair_price_today, fair_price_mos>>
       ELSE
       LET final_net_income == Last(records).NetIncome
           final_shares == Last(records).Shares
           price == FuturePrice(final_net_income, args.future_pe, final_shares)
           factor == DiscountFactor(args.discount_rate, args.years)
       IN  /\ future_price' = price
           /\ IF IsZero(factor)
              THEN /\ exc' = ZeroDivisionError(83)
                   /\ pc' = "raised"
                   /\ UNCHANGED <<fair_price_today, fair_price_mos>>
              ELSE /\ fair_price_today' = RDiv(price, factor)
                   /\ fair_price_mos' =
                          RMul(RDiv(price, factor),
                               MosFactor(args.margin_of_safety))
                   /\ pc' = "returned"
                   /\ UNCHANGED exc
    /\ UNCHANGED <<script_vars, direct_vars, fn, args, year, revenue,
                   shares, records, dcf_locals>>

(***************************************************************************)
(* project_dcf_scenario                                                    *)
(***************************************************************************)
\* Lines 124-135: the factors, the start values, npv = 0.0.
DcfEnter ==
    /\ pc = "entry"
    /\ fn = "project_dcf_scenario"
    /\ revenue' = RInt(args.start_revenue)
    /\ shares' = RInt(args.start_shares)
    /\ records' = NewRecords
    /\ npv' = R0
    /\ year' = DcfFirstYear
    /\ pc' = "loop"
    /\ UNCHANGED <<script_vars, direct_vars, fn, args, tv, tv_pv,
                   total_value, future_price, fair_price_today,
                   fair_price_mos, exc>>

\* Lines 137-159: one pass of the year loop: advance, discount, record.
DcfYear ==
    /\ pc = "loop"
    /\ fn = "project_dcf_scenario"
    /\ DcfLoopContinues(year, args.years)
    /\ LET rev == RMul(revenue, GrowthFactor(args.annual_revenue_growth))
           sh == RMul(shares, DilutionFactor(args.annual_dilution))
           net_income == RMul(rev, NetMarginDecimal(args.start_net_margin))
           fcf == RMul(rev, FcfMarginDecimal(args.fcf_margin))
           factor == DiscountFactor(args.discount_rate, year)
       IN  /\ revenue' = rev
           /\ shares' = sh
           /\ IF IsZero(factor)
              THEN /\ exc' = ZeroDivisionError(147)
                   /\ pc' = "raised"
                   /\ UNCHANGED <<npv, records, year>>
              ELSE /\ npv' = RAdd(npv, RDiv(fcf, factor))
                   /\ records' = Append(records,
                          YearRecord(year, rev, net_income, sh,
                                     Eps(net_income, sh), fcf))
                   /\ year' = year + 1
                   /\ UNCHANGED <<pc, exc>>
    /\ UNCHANGED <<script_vars, direct_vars, fn, args, tv, tv_pv,
                   total_value, future_price, fair_price_today,
                   fair_price_mos>>

\* Lines 161-171: the terminal value and the enterprise value.
DcfTerminal ==
    /\ pc = "loop"
    /\ fn = "project_dcf_scenario"
    /\ ~DcfLoopContinues(year, args.years)
    /\ IF TerminalBranch(args.discount_rate, args.terminal_growth)
       THEN LET fcf_last == IF records # << >> THEN Last(records).FCF ELSE R0
                den == GordonDenominator(args.discount_rate,
                                         args.terminal_growth)
                num == RMul(fcf_last,
                            RAdd(R1, RPct(args.terminal_growth)))
                factor == DiscountFactor(args.discount_rate, args.years)
            IN  IF IsZero(den)
                THEN /\ exc' = ZeroDivisionError(165)
                     /\ pc' = "raised"
                     /\ UNCHANGED <<tv, tv_pv, total_value>>
                ELSE IF IsZero(factor)
                THEN /\ tv' = RDiv(num, den)
                     /\ exc' = ZeroDivisionError(167)
                     /\ pc' = "raised"
                     /\ UNCHANGED <<tv_pv, total_value>>
                ELSE /\ tv' = RDiv(num, den)
                     /\ tv_pv' = RDiv(RDiv(num, den), factor)
                     /\ total_value' = RAdd(npv, RDiv(RDiv(num, den), factor))
                     /\ pc' = "price"
                     /\ UNCHANGED exc
       ELSE /\ tv_pv' = R0
            /\ total_value' = RAdd(npv, R0)
            /\ pc' = "price"
            /\ UNCHANGED <<tv, exc>>
    /\ UNCHANGED <<script_vars, direct_vars, fn, args, year, revenue,
                   shares, records, npv, future_price, fair_price_today,
                   fair_price_mos>>

\* Lines 173-185: price per share, margin of safety, return.
DcfFinal ==
    /\ pc = "price"
    /\ fn = "project_dcf_scenario"
    /\ LET final_shares == IF records # << >> THEN Last(records).Shares
                           ELSE RInt(args.start_shares)
           price == IF RGt0(final_shares)
                    THEN RDiv(total_value, final_shares)
                    ELSE R0
       IN  /\ fair_price_today' = price
           /\ fair_price_mos' = RMul(price, MosFactor(args.margin_of_safety))
    /\ pc' = "returned"
    /\ UNCHANGED <<script_vars, direct_vars, fn, args, year, revenue,
                   shares, records, dcf_locals, future_price, exc>>

Projector ==
    \/ KgvEnter
    \/ KgvYear
    \/ KgvFinal
    \/ DcfEnter
    \/ DcfYear
    \/ DcfTerminal
    \/ DcfFinal

(***************************************************************************)
(* The script: section 4, one call per scenario.                           *)
(***************************************************************************)
\* The function the selected method dispatches to (lines 317-343).
ProjectorOf(method) ==
    IF method = KGV THEN "project_kgv_scenario" ELSE "project_dcf_scenario"

\* Lines 314-343: read the scenario's assumptions and call the projector.
ScenarioCall ==
    /\ pc = "script"
    /\ scenario <= Len(Scenarios)
    /\ LET sd == scenario_data[Scenarios[scenario]]
       IN  args' = [start_revenue         |-> revenue_ttm,
                    start_shares          |-> shares_outstanding,
                    start_net_margin      |-> sd.net_margin,
                    fcf_margin            |-> sd.fcf_margin,
                    annual_revenue_growth |-> sd.revenue_growth,
                    annual_dilution       |-> sd.dilution,
                    future_pe             |-> sd.future_pe,
                    discount_rate         |-> sd.discount_rate,
                    terminal_growth       |-> sd.terminal_growth,
                    margin_of_safety      |-> sd.margin_of_safety,
                    years                 |-> years]
    /\ fn' = ProjectorOf(valuation_method)
    /\ pc' = "entry"
    /\ UNCHANGED <<script_vars, direct_vars, year, revenue, shares, records,
                   dcf_locals, future_price, fair_price_today,
                   fair_price_mos, exc>>

\* Lines 345-350: store the returned prices and the trace, next scenario.
ScenarioStore ==
    /\ pc = "returned"
    /\ scenario <= Len(Scenarios)
    /\ results' = [results EXCEPT ![Scenarios[scenario]] =
                       [fair_no_mos |-> fair_price_today,
                        fair_with_mos |-> fair_price_mos]]
    /\ dfs' = [dfs EXCEPT ![Scenarios[scenario]] = DataFrame(records)]
    /\ scenario' = scenario + 1
    /\ pc' = "script"
    /\ UNCHANGED <<revenue_ttm, shares_outstanding, valuation_method, years,
                   scenario_data, direct_vars, fn, args, year, revenue,
                   shares, records, dcf_locals, future_price,
                   fair_price_today, fair_price_mos, exc>>

NoResult == [fair_no_mos |-> Unbound, fair_with_mos |-> Unbound]
NoFrame == [columns |-> << >>, rows |-> << >>]
NoOutcome ==
    [exc |-> NoExc, df |-> NoFrame, fair_price_today |-> Unbound,
     fair_price_mos |-> Unbound, done |-> FALSE]

FrameInit ==
    /\ fn = "none"
    /\ year = 0
    /\ revenue = Unbound
    /\ shares = Unbound
    /\ records = << >>
    /\ npv = Unbound
    /\ tv = Unbound
    /\ tv_pv = Unbound
    /\ total_value = Unbound
    /\ future_price = Unbound
    /\ fair_price_today = Unbound
    /\ fair_price_mos = Unbound
    /\ exc = NoExc

\* The state when section 4 starts: the basic data loaded, the method and
\* the assumptions of the three scenarios entered, the horizon chosen.
Init ==
    /\ revenue_ttm \in {100}
    /\ shares_outstanding \in {10}
    /\ valuation_method \in {KGV, DCF}
    /\ years \in SliderMin..MaxYears
    /\ scenario_data \in [ScenarioNames -> ScriptAssumptions]
    /\ scenario = 1
    /\ results = [s \in ScenarioNames |-> NoResult]
    /\ dfs = [s \in ScenarioNames |-> NoFrame]
    /\ call_no = 0
    /\ outcome = [m \in {KGV, DCF} |-> NoOutcome]
    /\ pc = "script"
    /\ args = NoArgs
    /\ FrameInit

Next ==
    \/ ScenarioCall
    \/ ScenarioStore
    \/ Projector

Spec == Init /\ [][Next]_vars

(***************************************************************************)
(* The two functions applied directly, one after the other, to the same    *)
(* arguments.                                                              *)
(***************************************************************************)
\* Call the next of the two functions with the arguments.
FnCall ==
    /\ pc = "caller"
    /\ call_no <= Len(Methods)
    /\ fn' = ProjectorOf(Methods[call_no])
    /\ pc' = "entry"
    /\ exc' = NoExc
    /\ UNCHANGED <<script_vars, direct_vars, args, year, revenue, shares,
                   records, dcf_locals, future_price, fair_price_today,
                   fair_price_mos>>

\* The call ended: keep what it returned, or the exception it raised.
FnReturn ==
    /\ pc \in {"returned", "raised"}
    /\ call_no <= Len(Methods)
    /\ outcome' = [outcome EXCEPT ![Methods[call_no]] =
           IF pc = "returned"
           THEN [exc |-> NoExc, df |-> DataFrame(records),
                 fair_price_today |-> fair_price_today,
                 fair_price_mos |-> fair_price_mos, done |-> TRUE]
           ELSE [exc |-> exc, df |-> NoFrame, fair_price_today |-> Unbound,
                 fair_price_mos |-> Unbound, done |-> TRUE]]
    /\ call_no' = call_no + 1
    /\ pc' = "caller"
    /\ UNCHANGED <<script_vars, fn, args, year, revenue, shares, records,
                   dcf_locals, future_price, fair_price_today,
                   fair_price_mos, exc>>

InitFn ==
    /\ revenue_ttm = 0
    /\ shares_outstanding = 0
    /\ valuation_method = "none"
    /\ years = 0
    /\ scenario_data = << >>
    /\ scenario = 0
    /\ results = << >>
    /\ dfs = << >>
    /\ call_no = 1
    /\ outcome = [m \in {KGV, DCF} |-> NoOutcome]
    /\ pc = "caller"
    /\ args \in FnArguments
    /\ FrameInit

NextFn ==
    \/ FnCall
    \/ FnReturn
    \/ Projector

SpecFn == InitFn /\ [][NextFn]_vars

(***************************************************************************)
(* Properties.                                                             *)
(***************************************************************************)
IsKgv == fn = "project_kgv_scenario"
IsDcf == fn = "project_dcf_scenario"
Returned == pc = "returned"

\* The share count the price is divided by: that of the last record, or
\* start_shares when there is no record.
FinalSharesOf(recs) ==
    IF recs # << >> THEN Last(recs).Shares ELSE RInt(args.start_shares)

\* Sum over the records of FCF / (1 + discount_rate/100) ^ Jahr.
RECURSIVE SumDiscountedFcf(_, _)
SumDiscountedFcf(recs, discount_rate) ==
    IF recs = << >> THEN R0
    ELSE RAdd(SumDiscountedFcf(SubSeq(recs, 1, Len(recs) - 1), discount_rate),
              RDiv(Last(recs).FCF,
                   RPow(Norm(100 + discount_rate, 100), Last(recs).Jahr)))

\* C1: in project_dcf_scenario with discount_rate <= terminal_growth
\* (equality included) the Gordon-growth quotient is never evaluated (tv
\* stays unassigned, and neither line 165 nor line 167 can raise), the
\* terminal value counts as 0, and total_value is the sum of the discounted
\* yearly free cash flows alone.
C1_TerminalValueZero ==
    (IsDcf /\ args.discount_rate <= args.terminal_growth) =>
        /\ tv = Unbound
        /\ exc.line \notin {165, 167}
        /\ pc \in {"price", "returned"} =>
               /\ tv_pv = R0
               /\ total_value = SumDiscountedFcf(records, args.discount_rate)

C1_Witness ==
    /\ IsDcf
    /\ Returned
    /\ args.discount_rate = args.terminal_growth
    /\ Len(records) >= 2
    /\ ~IsZero(total_value)

\* C2: every call of either projector runs to completion and returns a
\* defined pair of prices; no step raises an exception.
C2_NoException ==
    /\ pc # "raised"
    /\ exc = NoExc
    /\ Returned => (fair_price_today # Unbound /\ fair_price_mos # Unbound)

\* C3: every year record whose Shares is <= 0 has EPS = 0, and a call that
\* returns with a final share count <= 0 (start_shares when the DCF trace is
\* empty) returns 0 for both prices.
C3_ZeroSharesGiveZero ==
    /\ \A i \in 1..Len(records) :
           ~RGt0(records[i].Shares) => records[i].EPS = R0
    /\ (Returned /\ ~RGt0(FinalSharesOf(records))) =>
           (fair_price_today = R0 /\ fair_price_mos = R0)

C3_Witness ==
    /\ IsDcf
    /\ Returned
    /\ Len(records) >= 2
    /\ IsZero(Last(records).Shares)
    /\ ~IsZero(total_value)
    /\ ~IsZero(Last(records).NetIncome)

\* C4: both projectors return fair_price_mos = fair_price_today *
\* (1 - margin_of_safety/100); with margin_of_safety = 0 the two prices are
\* equal, with margin_of_safety = 15 the factor is 0.85 = 17/20.
C4_MarginOfSafety ==
    Returned =>
        /\ RMul(fair_price_mos, RInt(100)) =
               RMul(fair_price_today, RInt(100 - args.margin_of_safety))
        /\ args.margin_of_safety = 0 => fair_price_mos = fair_price_today
        /\ args.margin_of_safety = 15 =>
               fair_price_mos = RMul(<<17, 20>>, fair_price_today)

C4_Witness ==
    /\ Returned
    /\ args.margin_of_safety = 15
    /\ RGt0(fair_price_today)
    /\ args.discount_rate # 0
    /\ args.years >= 1

\* C5: with annual_revenue_growth = 0 the revenue (Umsatz) of every year
\* record, and the revenue carried to the next year, is start_revenue, for
\* every horizon and both projectors.
C5_NoGrowthNoDrift ==
    args.annual_revenue_growth = 0 =>
        /\ \A i \in 1..Len(records) :
               records[i].Umsatz = RInt(args.start_revenue)
        /\ revenue \in {Unbound, RInt(args.start_revenue)}

C5_Witness ==
    /\ args.annual_revenue_growth = 0
    /\ IsDcf
    /\ Returned
    /\ Len(records) >= 2
    /\ Len(outcome[KGV].df.rows) >= 3

\* C6: project_kgv_scenario with discount_rate = 0 always returns, and
\* fair_price_today is the undiscounted future price: final NetIncome *
\* future_pe / final Shares when the final shares are > 0, and 0 otherwise.
C6_NoDiscountKeepsFuturePrice ==
    (IsKgv /\ args.discount_rate = 0) =>
        /\ pc # "raised"
        /\ Returned =>
               /\ fair_price_today = future_price
               /\ fair_price_today =
                      IF RGt0(Last(records).Shares)
                      THEN RDiv(RMul(Last(records).NetIncome,
                                     RInt(args.future_pe)),
                                Last(records).Shares)
                      ELSE R0

C6_Witness ==
    /\ IsKgv
    /\ Returned
    /\ args.discount_rate = 0
    /\ args.years >= 2
    /\ RGt0(fair_price_today)

\* C7: in one run of the scenario loop, two scenarios with identical
\* assumptions have identical results (fair_no_mos, fair_with_mos) and
\* identical traces, whatever their places in the loop and whatever the
\* scenarios computed before them.
C7_SameAssumptionsSameResults ==
    \A i, j \in 1..Len(Scenarios) :
        (i < scenario /\ j < scenario
         /\ scenario_data[Scenarios[i]] = scenario_data[Scenarios[j]]) =>
            /\ results[Scenarios[i]] = results[Scenarios[j]]
            /\ dfs[Scenarios[i]] = dfs[Scenarios[j]]

C7_Witness ==
    /\ pc = "script"
    /\ scenario > Len(Scenarios)
    /\ scenario_data["Best"] = scenario_data["Worst"]
    /\ scenario_data["Best"] # scenario_data["Base"]
    /\ results["Best"] # results["Base"]
    /\ RGt0(results["Worst"].fair_no_mos)

\* The interpolator of the design (section 4.1): the value at year t between
\* a short-term and a long-term assumption, for horizon > 0.
interpolate(short, long, t, horizon) ==
    RAdd(short, RDiv(RMul(RSub(long, short), RInt(t)), RInt(horizon)))

\* Long-term margins a scenario could name beside its start margin.
LongTermMargins == {10, 50}

\* C8 as stated: the net income recorded for year t is revenue(t) times the
\* margin interpolated for year t between the short-term (start) margin and
\* a long-term margin, whatever the long-term margin is.
C8_InterpolatedMargin ==
    \A long \in LongTermMargins :
        (IsKgv /\ pc \in {"loop", "returned"} /\ args.years > 0) =>
            \A i \in 1..Len(records) :
                records[i].NetIncome =
                    RMul(records[i].Umsatz,
                         RDiv(interpolate(RInt(args.start_net_margin),
                                          RInt(long), records[i].Jahr,
                                          args.years),
                              RInt(100)))

\* C8 amended: nothing is interpolated.  Every year of a projection uses the
\* one margin start_net_margin and the one growth rate
\* annual_revenue_growth: NetIncome = Umsatz * start_net_margin / 100 in
\* every record of both projectors, and the Umsatz of year t is
\* start_revenue * (1 + annual_revenue_growth/100) ^ t.
C8_ConstantMarginAndGrowth ==
    \A i \in 1..Len(records) :
        /\ RMul(records[i].NetIncome, RInt(100)) =
               RMul(records[i].Umsatz, RInt(args.start_net_margin))
        /\ records[i].Umsatz =
               RMul(RInt(args.start_revenue),
                    RPow(Norm(100 + args.annual_revenue_growth, 100),
                         records[i].Jahr))

C8_Witness ==
    /\ IsKgv
    /\ Returned
    /\ args.years >= 2
    /\ args.annual_revenue_growth # 0
    /\ args.start_net_margin = 50
    /\ Len(records) >= 3

\* Consecutive records differ by one year of growth and one of dilution.
OneTransitionPerYear(recs) ==
    \A i \in 1..(Len(recs) - 1) :
        /\ recs[i + 1].Umsatz =
               RMul(recs[i].Umsatz,
                    Norm(100 + args.annual_revenue_growth, 100))
        /\ recs[i + 1].Shares =
               RMul(recs[i].Shares, Norm(100 + args.annual_dilution, 100))

\* C9: project_kgv_scenario ends its loop with exactly years+1 records
\* numbered 0..years in order, the year-0 record holding start_revenue and
\* start_shares unchanged; project_dcf_scenario returns exactly years records
\* numbered 1..years, the first already carrying one year of growth and
\* dilution; in both, growth and dilution are applied once per transition.
C9_RecordAndAdvanceOrder ==
    /\ (IsKgv /\ pc \in {"returned", "raised"}) =>
           /\ Len(records) = args.years + 1
           /\ \A i \in 1..Len(records) : records[i].Jahr = i - 1
           /\ records[1].Umsatz = RInt(args.start_revenue)
           /\ records[1].Shares = RInt(args.start_shares)
           /\ OneTransitionPerYear(records)
    /\ (IsDcf /\ Returned) =>
           /\ Len(records) = args.years
           /\ \A i \in 1..Len(records) : records[i].Jahr = i
           /\ records # << >> =>
                  /\ records[1].Umsatz =
                         RMul(RInt(args.start_revenue),
                              Norm(100 + args.annual_revenue_growth, 100))
                  /\ records[1].Shares =
                         RMul(RInt(args.start_shares),
                              Norm(100 + args.annual_dilution, 100))
           /\ OneTransitionPerYear(records)

C9_Witness ==
    /\ IsDcf
    /\ Returned
    /\ args.years >= 2
    /\ args.annual_revenue_growth # 0
    /\ args.annual_dilution = -200
    /\ args.start_shares # 0
    /\ Len(outcome[KGV].df.rows) = args.years + 1

BothReturned ==
    /\ pc = "caller"
    /\ call_no > Len(Methods)
    /\ outcome[KGV].exc = NoExc
    /\ outcome[DCF].exc = NoExc

\* C10: called with the same arguments, the two projectors agree on the
\* years they share: the DCF record of year t has the Umsatz, NetIncome,
\* Shares and EPS of the KGV record of year t, for t in 1..years; the KGV
\* trace has one record more (year 0), FCF is 0 in every KGV record, and
\* both divide by the same final share count.
C10_ProjectorsAgree ==
    BothReturned =>
        LET K == outcome[KGV].df.rows
            D == outcome[DCF].df.rows
        IN  /\ Len(D) = args.years
            /\ Len(K) = Len(D) + 1
            /\ \A i \in 1..Len(K) : K[i].FCF = R0
            /\ \A t \in 1..args.years :
                   /\ D[t].Jahr = t
                   /\ K[t + 1].Jahr = t
                   /\ D[t].Umsatz = K[t + 1].Umsatz
                   /\ D[t].NetIncome = K[t + 1].NetIncome
                   /\ D[t].Shares = K[t + 1].Shares
                   /\ D[t].EPS = K[t + 1].EPS
            /\ FinalSharesOf(D) = Last(K).Shares

C10_Witness ==
    /\ BothReturned
    /\ args.years >= 2
    /\ args.annual_revenue_growth # 0
    /\ args.annual_dilution = -200
    /\ args.start_shares # 0
    /\ RGt0(Last(outcome[DCF].df.rows).EPS)

=============================================================================
